---- MODULE Spec2Model ----
(***************************************************************************)
(* Kaleidoscope front end (src/main.cpp): the lexer (gettok), the          *)
(* recursive-descent / precedence-climbing parser, the top-level driver    *)
(* loop and the AST code generator.  Characters and tokens are C ints, as  *)
(* in the source: a character is its ASCII code, EOF is -1, the token      *)
(* enumerators are negative and a punctuation token is its character.      *)
(***************************************************************************)
EXTENDS Integers, Sequences, FiniteSets, TLC

VARIABLES
  input,            \* the characters of stdin, fixed for a behaviour
  pos,              \* stdin cursor: index of the next character getchar returns
  LastChar,         \* static int LastChar of gettok
  IdentifierStr,    \* static std::string IdentifierStr
  NumVal,           \* static double NumVal
  CurTok,           \* static int CurTok
  BinopPrecedence,  \* static std::map<char,int> BinopPrecedence
  ntok,             \* history: number of gettok calls made through getNextToken
  pc,               \* position of main ("start", "loop", "done") or of its caller
  out,              \* what was written to stdout, one entry per fprintf
  last,             \* history: the latest driver iteration (kind, start, results)
  TheModule,        \* the functions of *TheModule, in creation order
  NamedValues,      \* static std::map<std::string, Value*> NamedValues
  code,             \* the IRBuilder calls made so far, in order
  given,            \* history: how Init built the input
  gen               \* history: the latest codegen call (node, result, state before)

vars == <<input, pos, LastChar, IdentifierStr, NumVal, CurTok, BinopPrecedence,
          ntok, pc, out, last, TheModule, NamedValues, code, given, gen>>

lexVars == <<input, pos, LastChar, IdentifierStr, NumVal, CurTok, BinopPrecedence,
             ntok, pc, out, last>>
genVars == <<TheModule, NamedValues, code, given, gen>>

(***************************************************************************)
(* Characters                                                              *)
(***************************************************************************)
Ord ==
  [c \in {" ", "\n", "#", "(", ")", "*", "+", ",", "-", ".", "/", "0", "1", "2",
          ";", "<", "_", "a", "b", "d", "e", "f", "g", "n", "o", "p", "r", "t", "x",
          "y"} |->
    CASE c = " " -> 32 [] c = "\n" -> 10 [] c = "#" -> 35 [] c = "(" -> 40
      [] c = ")" -> 41 [] c = "*" -> 42 [] c = "+" -> 43 [] c = "," -> 44
      [] c = "-" -> 45 [] c = "." -> 46 [] c = "/" -> 47 [] c = "0" -> 48
      [] c = "1" -> 49 [] c = "2" -> 50 [] c = ";" -> 59 [] c = "<" -> 60
      [] c = "_" -> 95
      [] c = "a" -> 97 [] c = "b" -> 98 [] c = "d" -> 100 [] c = "e" -> 101
      [] c = "f" -> 102 [] c = "g" -> 103 [] c = "n" -> 110 [] c = "o" -> 111
      [] c = "p" -> 112 [] c = "r" -> 114
      [] c = "t" -> 116 [] c = "x" -> 120 [] c = "y" -> 121]

\* a C string literal as the sequence of its character codes
Str(s) == [i \in DOMAIN s |-> Ord[s[i]]]

\* bounds of the model
MaxLexemes == 3    \* lexemes of an input text of the driver
MaxParams == 2     \* parameters of a prototype, arguments of a call
MaxInputLen == 4   \* characters of an input text of the lexer alone
MaxCalls == 6      \* gettok calls on the lexer alone
MaxFuncs == 2      \* functions created in the module

\* a one-letter name
Id(c) == Str(<<c>>)

RECURSIVE Flatten(_)
Flatten(ss) == IF ss = <<>> THEN <<>> ELSE Head(ss) \o Flatten(Tail(ss))

SeqsUpTo(S, n) == UNION {[1..k -> S] : k \in 0..n}

EOF == -1

isspace(c) == c = 32 \/ c \in 9..13
isdigit(c) == c \in 48..57
isalpha(c) == c \in 65..90 \/ c \in 97..122
isalnum(c) == isalpha(c) \/ isdigit(c)
isascii(c) == c \in 0..127

tok_eof == -1
tok_def == -2
tok_extern == -3
tok_identifier == -4
tok_number == -5

(***************************************************************************)
(* C evaluates an expression once and names its value: Bind(v, F) is F of  *)
(* the value of v.                                                         *)
(***************************************************************************)
Bind(v, F(_)) == CHOOSE y \in {F(x) : x \in {v}} : TRUE

(***************************************************************************)
(* strtod(NumStr, 0) on a string of digits and periods: the value of the   *)
(* longest prefix digits [ '.' digits ] that holds a digit, else 0.  A     *)
(* double is kept as its integer part and its fraction digits without      *)
(* trailing zeros, so that 1, 1. and 1.0 are one value.                    *)
(***************************************************************************)
RECURSIVE DigitRun(_, _)
DigitRun(s, i) ==
  IF i <= Len(s) /\ isdigit(s[i]) THEN DigitRun(s, i + 1) ELSE i

RECURSIVE IntOf(_, _, _)
IntOf(s, i, j) ==
  IF j < i THEN 0 ELSE 10 * IntOf(s, i, j - 1) + (s[j] - 48)

RECURSIVE StripZeros(_)
StripZeros(d) ==
  IF d # <<>> /\ d[Len(d)] = 0 THEN StripZeros(SubSeq(d, 1, Len(d) - 1)) ELSE d

Double(ip, fp) == [ip |-> ip, fp |-> StripZeros(fp)]

\* the digits s[i+1..j-1] after the period at s[i]
Fraction(s, i, j) == [k \in 1..(j - i - 1) |-> s[i + k] - 48]

strtod(s) ==
  Bind(DigitRun(s, 1), LAMBDA i :
    Bind(IF i <= Len(s) /\ s[i] = 46
           THEN Fraction(s, i, DigitRun(s, i + 1))
           ELSE <<>>, LAMBDA fp :
      IF i = 1 /\ fp = <<>> THEN Double(0, <<>>)
      ELSE Double(IntOf(s, 1, i - 1), fp)))

(***************************************************************************)
(* Lexer.  ls is the record of the lexer's and parser's statics.           *)
(***************************************************************************)
\* LastChar = getchar(): the next character of stdin, EOF once it is exhausted
getchar(ls) ==
  IF ls.pos <= Len(input)
    THEN [ls EXCEPT !.LastChar = input[ls.pos], !.pos = ls.pos + 1]
    ELSE [ls EXCEPT !.LastChar = EOF]

\* while (isspace(LastChar)) LastChar = getchar();
RECURSIVE SkipSpace(_)
SkipSpace(ls) ==
  IF isspace(ls.LastChar) THEN Bind(getchar(ls), SkipSpace) ELSE ls

\* while (isalnum((LastChar = getchar()))) IdentifierStr += LastChar;
RECURSIVE ReadIdentifier(_)
ReadIdentifier(ls) ==
  Bind(getchar(ls), LAMBDA n :
    IF isalnum(n.LastChar)
      THEN ReadIdentifier([n EXCEPT !.IdentifierStr = Append(@, n.LastChar)])
      ELSE n)

\* do { NumStr += LastChar; LastChar = getchar(); } while (...); NumVal = strtod
RECURSIVE ReadNumber(_, _)
ReadNumber(ls, NumStr) ==
  Bind(Append(NumStr, ls.LastChar), LAMBDA s :
    Bind(getchar(ls), LAMBDA n :
      IF isdigit(n.LastChar) \/ n.LastChar = 46
        THEN ReadNumber(n, s)
        ELSE [n EXCEPT !.NumVal = strtod(s)]))

\* do LastChar = getchar(); while (LastChar != EOF && != '\n' && != '\r');
RECURSIVE SkipComment(_)
SkipComment(ls) ==
  Bind(getchar(ls), LAMBDA n :
    IF n.LastChar # EOF /\ n.LastChar # 10 /\ n.LastChar # 13
      THEN SkipComment(n)
      ELSE n)

RECURSIVE gettok(_)
gettok(ls0) ==
  Bind(SkipSpace(ls0), LAMBDA ls :
    IF isalpha(ls.LastChar) THEN
      Bind(ReadIdentifier([ls EXCEPT !.IdentifierStr = <<ls.LastChar>>]),
        LAMBDA n :
          [ls |-> n,
           tok |-> IF n.IdentifierStr = Str(<<"d", "e", "f">>) THEN tok_def
                   ELSE IF n.IdentifierStr = Str(<<"e", "x", "t", "e", "r", "n">>)
                     THEN tok_extern
                   ELSE tok_identifier])
    ELSE IF isdigit(ls.LastChar) \/ ls.LastChar = 46 THEN
      [ls |-> ReadNumber(ls, <<>>), tok |-> tok_number]
    ELSE
      Bind(IF ls.LastChar = 35 THEN SkipComment(ls) ELSE ls, LAMBDA c :
        IF ls.LastChar = 35 /\ c.LastChar # EOF THEN gettok(c)
        ELSE IF c.LastChar = EOF THEN [ls |-> c, tok |-> tok_eof]
        ELSE [ls |-> getchar(c), tok |-> c.LastChar]))

\* the slip "return CurTok == gettok();": CurTok is compared, never assigned
getNextToken_compare(ls) ==
  Bind(gettok(ls), LAMBDA r : [r.ls EXCEPT !.ntok = @ + 1])

\* return CurTok = gettok();
getNextToken(ls) ==
  Bind(gettok(ls), LAMBDA r : [r.ls EXCEPT !.CurTok = r.tok, !.ntok = @ + 1])

\* the statics as one record, and back
Statics ==
  [pos |-> pos, LastChar |-> LastChar, IdentifierStr |-> IdentifierStr,
   NumVal |-> NumVal, CurTok |-> CurTok, BinopPrecedence |-> BinopPrecedence,
   ntok |-> ntok, err |-> <<>>]

SetStatics(ls) ==
  /\ pos' = ls.pos
  /\ LastChar' = ls.LastChar
  /\ IdentifierStr' = ls.IdentifierStr
  /\ NumVal' = ls.NumVal
  /\ CurTok' = ls.CurTok
  /\ BinopPrecedence' = ls.BinopPrecedence
  /\ ntok' = ls.ntok

(***************************************************************************)
(* AST                                                                     *)
(***************************************************************************)
nullptr == [kind |-> "nullptr"]
NumberExprAST(Val) == [kind |-> "Number", Val |-> Val]
VariableExprAST(Name) == [kind |-> "Variable", Name |-> Name]
BinaryExprAST(Op, LHS, RHS) == [kind |-> "Binary", Op |-> Op, LHS |-> LHS, RHS |-> RHS]
CallExprAST(Callee, Args) == [kind |-> "Call", Callee |-> Callee, Args |-> Args]
PrototypeAST(Name, Args) == [kind |-> "Prototype", Name |-> Name, Args |-> Args]
FunctionAST(Proto, Body) == [kind |-> "Function", Proto |-> Proto, Body |-> Body]

\* LogError / LogErrorP: one line on stderr, and the null result
LogError(ls, msg) == [ls |-> [ls EXCEPT !.err = Append(@, msg)], res |-> nullptr]

(***************************************************************************)
(* Parser.  Every parse function takes the statics and returns the statics *)
(* it leaves and its result (an AST node or nullptr).                      *)
(***************************************************************************)
\* m[k] of std::map: a missing key is inserted with the value-initialised d
MapIndex(m, k, d) == IF k \in DOMAIN m THEN m ELSE m @@ (k :> d)

\* m[k] = v of std::map
MapAssign(m, k, v) == [x \in DOMAIN m \cup {k} |-> IF x = k THEN v ELSE m[x]]

GetTokPrecedence(ls) ==
  IF ~isascii(ls.CurTok) THEN [ls |-> ls, prec |-> -1]
  ELSE Bind(MapIndex(ls.BinopPrecedence, ls.CurTok, 0), LAMBDA m :
         [ls |-> [ls EXCEPT !.BinopPrecedence = m],
          prec |-> IF m[ls.CurTok] <= 0 THEN -1 ELSE m[ls.CurTok]])

RECURSIVE ParseExpression(_)
RECURSIVE ParsePrimary(_)
RECURSIVE ParseParenExpr(_)
RECURSIVE ParseIdentifierExpr(_)
RECURSIVE ParseArgs(_, _)
RECURSIVE ParseBinOpRHS(_, _, _)

ParseNumberExpr(ls) ==
  [ls |-> getNextToken(ls), res |-> NumberExprAST(ls.NumVal)]

ParseParenExpr(ls) ==
  Bind(getNextToken(ls), LAMBDA a :
    Bind(ParseExpression(a), LAMBDA V :
      IF V.res = nullptr THEN V
      ELSE IF V.ls.CurTok # 41 THEN LogError(V.ls, "expected ')'")
      ELSE [ls |-> getNextToken(V.ls), res |-> V.res]))

\* the while (1) loop of ParseIdentifierExpr, entered on an argument
ParseArgs(ls, Args) ==
  Bind(ParseExpression(ls), LAMBDA Arg :
    IF Arg.res = nullptr THEN [ls |-> Arg.ls, ok |-> FALSE, Args |-> Args]
    ELSE IF Arg.ls.CurTok = 41
      THEN [ls |-> Arg.ls, ok |-> TRUE, Args |-> Append(Args, Arg.res)]
    ELSE IF Arg.ls.CurTok # 44
      THEN [ls |-> LogError(Arg.ls, "Expected ')' or ',' in argument list.").ls,
            ok |-> FALSE, Args |-> Append(Args, Arg.res)]
    ELSE Bind(getNextToken(Arg.ls), LAMBDA n :
           ParseArgs(n, Append(Args, Arg.res))))

ParseIdentifierExpr(ls) ==
  Bind(getNextToken(ls), LAMBDA a :
    IF a.CurTok # 40 THEN [ls |-> a, res |-> VariableExprAST(ls.IdentifierStr)]
    ELSE
      Bind(getNextToken(a), LAMBDA b :
        Bind(IF b.CurTok # 41 THEN ParseArgs(b, <<>>)
             ELSE [ls |-> b, ok |-> TRUE, Args |-> <<>>], LAMBDA r :
          IF ~r.ok THEN [ls |-> r.ls, res |-> nullptr]
          ELSE [ls |-> getNextToken(r.ls),
                res |-> CallExprAST(ls.IdentifierStr, r.Args)])))

ParsePrimary(ls) ==
  IF ls.CurTok = tok_identifier THEN ParseIdentifierExpr(ls)
  ELSE IF ls.CurTok = tok_number THEN ParseNumberExpr(ls)
  ELSE IF ls.CurTok = 40 THEN ParseParenExpr(ls)
  ELSE LogError(ls, "unknown token when expecting an expression")

\* the slip of leaving out the look at the next operator: operators are
\* combined left to right whatever their precedence
ParseBinOpRHS_flat(ExprPrec, LHS, ls) ==
  Bind(GetTokPrecedence(ls), LAMBDA p :
    IF p.prec < ExprPrec THEN [ls |-> p.ls, res |-> LHS]
    ELSE
      Bind(getNextToken(p.ls), LAMBDA t :
        Bind(ParsePrimary(t), LAMBDA R :
          IF R.res = nullptr THEN R
          ELSE ParseBinOpRHS(ExprPrec,
                 BinaryExprAST(p.ls.CurTok, LHS, R.res), R.ls))))

\* p.prec is TokPrec, p.ls.CurTok is BinOp, n.prec is NextPrec
ParseBinOpRHS(ExprPrec, LHS, ls) ==
  Bind(GetTokPrecedence(ls), LAMBDA p :
    IF p.prec < ExprPrec THEN [ls |-> p.ls, res |-> LHS]
    ELSE
      Bind(getNextToken(p.ls), LAMBDA t :
        Bind(ParsePrimary(t), LAMBDA R :
          IF R.res = nullptr THEN R
          ELSE
            Bind(GetTokPrecedence(R.ls), LAMBDA n :
              Bind(IF p.prec < n.prec
                     THEN ParseBinOpRHS(p.prec + 1, R.res, n.ls)
                     ELSE [ls |-> n.ls, res |-> R.res], LAMBDA RHS :
                IF RHS.res = nullptr THEN RHS
                ELSE ParseBinOpRHS(ExprPrec,
                       BinaryExprAST(p.ls.CurTok, LHS, RHS.res), RHS.ls))))))

ParseExpression(ls) ==
  Bind(ParsePrimary(ls), LAMBDA LHS :
    IF LHS.res = nullptr THEN LHS ELSE ParseBinOpRHS(0, LHS.res, LHS.ls))

\* while (getNextToken() == tok_identifier) ArgNames.push_back(IdentifierStr);
RECURSIVE ReadArgNames(_, _)
ReadArgNames(ls, ArgNames) ==
  Bind(getNextToken(ls), LAMBDA n :
    IF n.CurTok = tok_identifier
      THEN ReadArgNames(n, Append(ArgNames, n.IdentifierStr))
      ELSE [ls |-> n, ArgNames |-> ArgNames])

\* the slip of leaving out the test for ')': a prototype of what was read
ParsePrototype_unclosed(ls) ==
  IF ls.CurTok # tok_identifier
    THEN LogError(ls, "Expected function name in prototype")
  ELSE
    Bind(getNextToken(ls), LAMBDA a :
      IF a.CurTok # 40 THEN LogError(a, "Expected '(' in prototype")
      ELSE
        Bind(ReadArgNames(a, <<>>), LAMBDA r :
          [ls |-> getNextToken(r.ls),
           res |-> PrototypeAST(ls.IdentifierStr, r.ArgNames)]))

ParsePrototype(ls) ==
  IF ls.CurTok # tok_identifier
    THEN LogError(ls, "Expected function name in prototype")
  ELSE
    Bind(getNextToken(ls), LAMBDA a :
      IF a.CurTok # 40 THEN LogError(a, "Expected '(' in prototype")
      ELSE
        Bind(ReadArgNames(a, <<>>), LAMBDA r :
          IF r.ls.CurTok # 41 THEN LogError(r.ls, "Expected ')' in prototype")
          ELSE [ls |-> getNextToken(r.ls),
                res |-> PrototypeAST(ls.IdentifierStr, r.ArgNames)]))

\* proto is the prototype ParsePrototype returned, kept for the history
ParseDefinition(ls) ==
  Bind(getNextToken(ls), LAMBDA a :
    Bind(ParsePrototype(a), LAMBDA Proto :
      IF Proto.res = nullptr
        THEN [ls |-> Proto.ls, proto |-> nullptr, res |-> nullptr]
      ELSE
        Bind(ParseExpression(Proto.ls), LAMBDA E :
          [ls |-> E.ls, proto |-> Proto.res,
           res |-> IF E.res # nullptr THEN FunctionAST(Proto.res, E.res)
                   ELSE nullptr])))

\* "__anon_expr"
AnonExpr == Str(<<"_", "_", "a", "n", "o", "n", "_", "e", "x", "p", "r">>)

ParseTopLevelExpr(ls) ==
  Bind(ParseExpression(ls), LAMBDA E :
    [ls |-> E.ls, proto |-> nullptr,
     res |-> IF E.res # nullptr
               THEN FunctionAST(PrototypeAST(AnonExpr, <<>>), E.res)
               ELSE nullptr])

ParseExtern(ls) ==
  Bind(getNextToken(ls), LAMBDA a :
    Bind(ParsePrototype(a), LAMBDA P :
      [ls |-> P.ls, proto |-> P.res, res |-> P.res]))

(***************************************************************************)
(* Top level: main and MainLoop, one action per handler.                   *)
(***************************************************************************)
NoIteration ==
  [kind |-> "none", start |-> 0, proto |-> nullptr, res |-> nullptr, err |-> <<>>]

\* the history of an iteration that parsed r
Iteration(kind, r) ==
  [kind |-> kind, start |-> ntok, proto |-> r.proto, res |-> r.res,
   err |-> r.ls.err]

\* main, up to the call of MainLoop
Main ==
  /\ pc = "start"
  /\ \E ls \in {getNextToken(
         [Statics EXCEPT !.BinopPrecedence =
            MapAssign(MapAssign(MapAssign(MapAssign(BinopPrecedence,
              60, 10), 43, 20), 45, 20), 42, 40)])} : SetStatics(ls)
  /\ out' = Append(out, "ready> ")
  /\ pc' = "loop"
  /\ UNCHANGED <<input, last, genVars>>

\* case tok_eof: return, and main returns 0
MainLoopEof ==
  /\ pc = "loop"
  /\ CurTok = tok_eof
  /\ out' = Append(out, "ready> ")
  /\ pc' = "done"
  /\ UNCHANGED <<input, pos, LastChar, IdentifierStr, NumVal, CurTok,
                 BinopPrecedence, ntok, last, genVars>>

\* case ';': getNextToken()
MainLoopSemi ==
  /\ pc = "loop"
  /\ CurTok = 59
  /\ \E ls \in {getNextToken(Statics)} : SetStatics(ls)
  /\ last' = [NoIteration EXCEPT !.kind = "semi", !.start = ntok]
  /\ out' = Append(out, "ready> ")
  /\ UNCHANGED <<input, pc, genVars>>

\* the slip of leaving out the else branch: a failed parse skips no token
Handled_noskip(kind, r, msg) ==
  /\ last' = Iteration(kind, r)
  /\ IF r.res # nullptr
       THEN /\ SetStatics(r.ls)
            /\ out' = out \o <<"ready> ", msg>>
       ELSE /\ SetStatics(r.ls)
            /\ out' = Append(out, "ready> ")

\* a handler's tail: report the unit, or skip a token on failure
Handled(kind, r, msg) ==
  /\ last' = Iteration(kind, r)
  /\ IF r.res # nullptr
       THEN /\ SetStatics(r.ls)
            /\ out' = out \o <<"ready> ", msg>>
       ELSE /\ \E ls \in {getNextToken(r.ls)} : SetStatics(ls)
            /\ out' = Append(out, "ready> ")

HandleDefinition ==
  /\ pc = "loop"
  /\ CurTok = tok_def
  /\ \E r \in {ParseDefinition(Statics)} :
       Handled("def", r, "Parsed a function definition.")
  /\ UNCHANGED <<input, pc, genVars>>

HandleExtern ==
  /\ pc = "loop"
  /\ CurTok = tok_extern
  /\ \E r \in {ParseExtern(Statics)} :
       Handled("extern", r, "Parsed a function extern.")
  /\ UNCHANGED <<input, pc, genVars>>

HandleTopLevelExpr ==
  /\ pc = "loop"
  /\ CurTok \notin {tok_eof, 59, tok_def, tok_extern}
  /\ \E r \in {ParseTopLevelExpr(Statics)} :
       Handled("expr", r, "Parsed a function top-level expression.")
  /\ UNCHANGED <<input, pc, genVars>>

(***************************************************************************)
(* Code generation.  A Value* is nullptr, a ConstantFP, a function         *)
(* argument or the result of an IRBuilder call; code is the sequence of    *)
(* IRBuilder calls.  st is the record of what codegen() reads and writes:  *)
(* NamedValues, code, the lines written to stderr by this call (err) and   *)
(* the nodes whose codegen() was entered, in order (visited).              *)
(***************************************************************************)
ConstantFP(Val) == [kind |-> "ConstantFP", Val |-> Val]
Argument(fn, i) == [kind |-> "Argument", fn |-> fn, i |-> i]
Instruction(i) == [kind |-> "Instruction", i |-> i]

\* Builder.Create...(...): the call is recorded and its result is a new value
Create(st, op, args) ==
  [st |-> [st EXCEPT !.code = Append(@, [op |-> op, args |-> args])],
   v |-> Instruction(Len(st.code) + 1)]

LogErrorV(st, msg) == [st |-> [st EXCEPT !.err = Append(@, msg)], v |-> nullptr]

\* TheModule->getFunction(Callee): the index of the function of that name, 0 if none
getFunction(Callee) ==
  IF \E i \in DOMAIN TheModule : TheModule[i].Name = Callee
    THEN CHOOSE i \in DOMAIN TheModule : TheModule[i].Name = Callee
    ELSE 0

RECURSIVE Codegen(_, _)
RECURSIVE CodegenArgs(_, _, _, _)

NumberCodegen(e, st) == [st |-> st, v |-> ConstantFP(e.Val)]

VariableCodegen(e, st) ==
  Bind(MapIndex(st.NamedValues, e.Name, nullptr), LAMBDA m :
    IF m[e.Name] = nullptr
      THEN [st |-> LogErrorV([st EXCEPT !.NamedValues = m],
                             "Unknown variable name").st,
            v |-> m[e.Name]]
      ELSE [st |-> [st EXCEPT !.NamedValues = m], v |-> m[e.Name]])

\* the switch (Op) of BinaryExprAST::codegen
BinaryCreate(Op, L, R, st) ==
  IF Op = 43 THEN Create(st, "FAdd", <<L, R>>)
  ELSE IF Op = 45 THEN Create(st, "FSub", <<L, R>>)
  ELSE IF Op = 42 THEN Create(st, "FMul", <<L, R>>)
  ELSE IF Op = 60
    THEN Bind(Create(st, "FCmpULT", <<L, R>>), LAMBDA c :
           Create(c.st, "UIToFP", <<c.v>>))
  ELSE LogErrorV(st, "invalid binary operator")

\* the slip "if (!L && !R)": one failed operand is not enough to give up
BinaryCodegen_and(e, st) ==
  Bind(Codegen(e.LHS, st), LAMBDA L :
    Bind(Codegen(e.RHS, L.st), LAMBDA R :
      IF L.v = nullptr /\ R.v = nullptr THEN [st |-> R.st, v |-> nullptr]
      ELSE BinaryCreate(e.Op, L.v, R.v, R.st)))

BinaryCodegen(e, st) ==
  Bind(Codegen(e.LHS, st), LAMBDA L :
    Bind(Codegen(e.RHS, L.st), LAMBDA R :
      IF L.v = nullptr \/ R.v = nullptr THEN [st |-> R.st, v |-> nullptr]
      ELSE BinaryCreate(e.Op, L.v, R.v, R.st)))

\* the for loop of CallExprAST::codegen, from argument i on
CodegenArgs(Args, i, ArgsV, st) ==
  IF i > Len(Args) THEN [st |-> st, ok |-> TRUE, ArgsV |-> ArgsV]
  ELSE Bind(Codegen(Args[i], st), LAMBDA A :
         IF A.v = nullptr
           THEN [st |-> A.st, ok |-> FALSE, ArgsV |-> Append(ArgsV, A.v)]
           ELSE CodegenArgs(Args, i + 1, Append(ArgsV, A.v), A.st))

\* the slip of testing the argument count after the loop
CallCodegen_count_late(e, st) ==
  Bind(getFunction(e.Callee), LAMBDA CalleeF :
    IF CalleeF = 0 THEN LogErrorV(st, "unknown function referenced.")
    ELSE Bind(CodegenArgs(e.Args, 1, <<>>, st), LAMBDA r :
           IF ~r.ok THEN [st |-> r.st, v |-> nullptr]
           ELSE IF TheModule[CalleeF].arg_size # Len(e.Args)
             THEN LogErrorV(r.st, "Incorrect number of arguments passed.")
           ELSE Create(r.st, "Call", <<CalleeF>> \o r.ArgsV)))

\* the slip of testing CalleeF and the argument count after the loop
CallCodegen_late(e, st) ==
  Bind(getFunction(e.Callee), LAMBDA CalleeF :
    Bind(CodegenArgs(e.Args, 1, <<>>, st), LAMBDA r :
      IF ~r.ok THEN [st |-> r.st, v |-> nullptr]
      ELSE IF CalleeF = 0 THEN LogErrorV(r.st, "unknown function referenced.")
      ELSE IF TheModule[CalleeF].arg_size # Len(e.Args)
        THEN LogErrorV(r.st, "Incorrect number of arguments passed.")
      ELSE Create(r.st, "Call", <<CalleeF>> \o r.ArgsV)))

CallCodegen(e, st) ==
  Bind(getFunction(e.Callee), LAMBDA CalleeF :
    IF CalleeF = 0 THEN LogErrorV(st, "unknown function referenced.")
    ELSE IF TheModule[CalleeF].arg_size # Len(e.Args)
      THEN LogErrorV(st, "Incorrect number of arguments passed.")
    ELSE Bind(CodegenArgs(e.Args, 1, <<>>, st), LAMBDA r :
           IF ~r.ok THEN [st |-> r.st, v |-> nullptr]
           ELSE Create(r.st, "Call", <<CalleeF>> \o r.ArgsV)))

\* the virtual call e->codegen()
Codegen(e, st) ==
  Bind([st EXCEPT !.visited = Append(@, e)], LAMBDA s :
    IF e.kind = "Number" THEN NumberCodegen(e, s)
    ELSE IF e.kind = "Variable" THEN VariableCodegen(e, s)
    ELSE IF e.kind = "Binary" THEN BinaryCodegen(e, s)
    ELSE CallCodegen(e, s))

\* the name Function::Create gives a function in a module that has the name
\* already: the name, a period and the first number that makes it new
RECURSIVE UniqueName(_, _)
UniqueName(Name, n) ==
  IF \A i \in DOMAIN TheModule : TheModule[i].Name # Name \o <<46, 48 + n>>
    THEN Name \o <<46, 48 + n>>
    ELSE UniqueName(Name, n + 1)

\* Function::Create(FT, Function::ExternalLinkage, Name, TheModule)
FunctionCreate(Name, arg_size) ==
  Append(TheModule,
    [Name |-> IF getFunction(Name) = 0 THEN Name ELSE UniqueName(Name, 1),
     arg_size |-> arg_size])

\* the names of the nodes
Names == {Id("x"), Id("y")}
Callees == {Id("f"), Id("g")}

Prototypes == {PrototypeAST(Id("f"), a) : a \in SeqsUpTo({Id("x")}, MaxParams)}

\* no argument, one argument, two arguments
ArgLists(S) == {<<>>} \cup {<<a>> : a \in S} \cup {<<a, b>> : a \in S, b \in S}

Atoms ==
  {NumberExprAST(Double(1, <<>>)), VariableExprAST(Id("x")),
   VariableExprAST(Id("y"))}

Simple ==
  Atoms
    \cup {BinaryExprAST(op, a, b) : op \in {43, 60, 47}, a \in Atoms, b \in Atoms}
    \cup {CallExprAST(c, as) : c \in Callees, as \in ArgLists(Atoms)}

Operands ==
  {VariableExprAST(Id("x")), VariableExprAST(Id("y")),
   BinaryExprAST(43, VariableExprAST(Id("x")), VariableExprAST(Id("x"))),
   CallExprAST(Id("f"), <<VariableExprAST(Id("x"))>>)}

Exprs ==
  Simple
    \cup {BinaryExprAST(43, a, b) : a \in Operands, b \in Operands}
    \cup {CallExprAST(c, as) : c \in Callees, as \in ArgLists(Operands)}

NoGen == [kind |-> "none"]

\* PrototypeAST::codegen.  The function ends without a return statement, so
\* what the caller receives is indeterminate: the new function (what is left
\* in the return register), a null pointer, or anything else.
PrototypeCodegen ==
  /\ pc = "codegen"
  /\ Len(TheModule) < MaxFuncs
  /\ \E P \in Prototypes :
       /\ TheModule' = FunctionCreate(P.Name, Len(P.Args))
       /\ \E ret \in {[kind |-> "Function", i |-> Len(TheModule) + 1], nullptr,
                      [kind |-> "Indeterminate"]} :
            gen' = [kind |-> "Prototype", node |-> P, module |-> TheModule,
                    v |-> ret]
  /\ UNCHANGED <<lexVars, given, NamedValues, code>>

\* the start of a function definition's body: an entry block is created, the
\* table is cleared and each parameter name is bound to the function's
\* argument of that position (a repeated name keeps its last argument)
BindParameters ==
  /\ pc = "codegen"
  /\ \E fn \in DOMAIN TheModule :
       \E ns \in [1..TheModule[fn].arg_size -> Names] :
         NamedValues' = [n \in {ns[i] : i \in DOMAIN ns} |->
                           Argument(fn, CHOOSE i \in DOMAIN ns :
                             /\ ns[i] = n
                             /\ \A j \in DOMAIN ns : ns[j] = n => j <= i)]
  /\ code' = <<>>
  /\ gen' = NoGen
  /\ pc' = "body"
  /\ UNCHANGED <<input, pos, LastChar, IdentifierStr, NumVal, CurTok,
                 BinopPrecedence, ntok, out, last, given, TheModule>>

\* Body->codegen() on the expression that is the function's body
ExprCodegen ==
  /\ pc = "body"
  /\ \E e \in Exprs :
       \E r \in {Codegen(e, [NamedValues |-> NamedValues, code |-> code,
                            err |-> <<>>, visited |-> <<>>])} :
         /\ NamedValues' = r.st.NamedValues
         /\ code' = r.st.code
         /\ gen' = [kind |-> "Expr", node |-> e, v |-> r.v,
                    NamedValues |-> NamedValues, code |-> code,
                    err |-> r.st.err, visited |-> r.st.visited]
  /\ pc' = "codegen"
  /\ UNCHANGED <<input, pos, LastChar, IdentifierStr, NumVal, CurTok,
                 BinopPrecedence, ntok, out, last, given, TheModule>>

(***************************************************************************)
(* Inputs                                                                  *)
(***************************************************************************)
Lexemes ==
  {<<"d", "e", "f", " ">>, <<"e", "x", "t", "e", "r", "n", " ">>, <<"f">>,
   <<"x", " ">>, <<"1">>, <<"(">>, <<")">>, <<",">>, <<";">>, <<"+">>, <<"*">>}

\* every text of at most MaxLexemes lexemes
ShortInputs == {Str(Flatten(ls)) : ls \in SeqsUpTo(Lexemes, MaxLexemes)}

\* primaries, each with the tree ParsePrimary is to build for it
Primaries ==
  {[text |-> <<"x", " ">>, ast |-> VariableExprAST(Id("x"))],
   [text |-> <<"2", ".", "0">>, ast |-> NumberExprAST(Double(2, <<>>))],
   [text |-> <<"(", "y", ")">>, ast |-> VariableExprAST(Id("y"))],
   [text |-> <<"f", "(", ")">>, ast |-> CallExprAST(Id("f"), <<>>)],
   [text |-> <<"g", "(", "x", ",", "1", ")">>,
    ast |-> CallExprAST(Id("g"), <<VariableExprAST(Id("x")),
                                     NumberExprAST(Double(1, <<>>))>>)],
   [text |-> <<"(", "a", "<", "b", ")">>,
    ast |-> BinaryExprAST(60, VariableExprAST(Id("a")),
                          VariableExprAST(Id("b")))]}

Operators == {"<", "+", "-", "*"}

\* where an expression stands: at top level, as the body of a definition, or
\* after an extern; before is the number of tokens read before the iteration
\* that parses it
Heads ==
  {[text |-> <<>>, before |-> 0],
   [text |-> <<"d", "e", "f", " ", "f", "(", "x", ")">>, before |-> 0],
   [text |-> <<"e", "x", "t", "e", "r", "n", " ", "f", "(", ")", ";">>,
    before |-> 5]}

\* a OP1 b OP2 c, alone or followed by ';'
ExprCases ==
  [head : Heads, a : Primaries, op1 : Operators, b : Primaries,
   op2 : Operators, c : Primaries, tail : {<<>>, <<";">>}]

ExprText(g) ==
  Str(g.head.text \o g.a.text \o <<g.op1>> \o g.b.text \o <<g.op2>>
        \o g.c.text \o g.tail)

\* def or extern, a name, and a parameter list that is closed or is not
ProtoInputs ==
  {Str(Flatten(<<kw, <<"f">>, open, Flatten(ps), close, tail>>)) :
     kw \in {<<"d", "e", "f", " ">>, <<"e", "x", "t", "e", "r", "n", " ">>},
     open \in {<<"(">>, <<" ">>},
     ps \in SeqsUpTo({<<"x", " ">>, <<"y", " ">>, <<"x", ",">>}, MaxParams),
     close \in {<<")">>, <<>>, <<";">>, <<"1">>},
     tail \in {<<>>, <<"x", " ">>, <<" ", ")">>}}

(***************************************************************************)
(* Specifications                                                          *)
(***************************************************************************)
InitStatics ==
  /\ pos = 1
  /\ LastChar = 32
  /\ IdentifierStr = <<>>
  /\ NumVal = Double(0, <<>>)
  /\ CurTok = 0
  /\ BinopPrecedence = <<>>
  /\ ntok = 0
  /\ out = <<>>
  /\ last = NoIteration

InitGen ==
  /\ TheModule = <<>>
  /\ NamedValues = <<>>
  /\ code = <<>>
  /\ gen = NoGen

\* the program run on a text
Init ==
  /\ input \in ShortInputs \cup ProtoInputs
  /\ given = [kind |-> "text"]
  /\ pc = "start"
  /\ InitStatics
  /\ InitGen

Next ==
  \/ Main
  \/ MainLoopEof
  \/ MainLoopSemi
  \/ HandleDefinition
  \/ HandleExtern
  \/ HandleTopLevelExpr

Spec == Init /\ [][Next]_vars

\* the driver runs until it returns
FairSpec == Spec /\ WF_vars(Next)

\* the program run on a OP1 b OP2 c
InitExpr ==
  /\ given \in ExprCases
  /\ input = ExprText(given)
  /\ pc = "start"
  /\ InitStatics
  /\ InitGen

SpecExpr == InitExpr /\ [][Next]_vars

\* the code generator, called on prototypes and expressions
InitCodegen ==
  /\ input = <<>>
  /\ given = [kind |-> "nodes"]
  /\ pc = "codegen"
  /\ InitStatics
  /\ InitGen

NextCodegen ==
  \/ PrototypeCodegen
  \/ BindParameters
  \/ ExprCodegen

SpecCodegen == InitCodegen /\ [][NextCodegen]_vars

\* the lexer alone, called again and again on a text
LexInputs ==
  {Str(cs) : cs \in SeqsUpTo({"a", "1", ".", "#", "\n", " ", ";"}, MaxInputLen)}

GetTok ==
  /\ pc = "lex"
  /\ ntok < MaxCalls
  /\ \E ls \in {getNextToken(Statics)} : SetStatics(ls)
  /\ UNCHANGED <<input, pc, out, last, genVars>>

InitLex ==
  /\ input \in LexInputs
  /\ given = [kind |-> "chars"]
  /\ pc = "lex"
  /\ InitStatics
  /\ InitGen

NextLex == GetTok

SpecLex == InitLex /\ [][NextLex]_vars

(***************************************************************************)
(* The token stream of the input, read off by calling the lexer alone:     *)
(* Tokens[i] is what the i-th getNextToken call returns, the last one      *)
(* being end-of-input.                                                     *)
(***************************************************************************)
RECURSIVE Lex(_, _)
Lex(ls, acc) ==
  Bind(getNextToken(ls), LAMBDA n :
    IF n.CurTok = tok_eof THEN Append(acc, [tok |-> tok_eof, id |-> <<>>])
    ELSE Lex(n, Append(acc, [tok |-> n.CurTok, id |-> n.IdentifierStr])))

Tokens ==
  Lex([pos |-> 1, LastChar |-> 32, IdentifierStr |-> <<>>,
       NumVal |-> Double(0, <<>>), CurTok |-> 0, BinopPrecedence |-> <<>>,
       ntok |-> 0, err |-> <<>>], <<>>)

TokOf(toks, i) == IF i <= Len(toks) THEN toks[i] ELSE toks[Len(toks)]

\* the number of consecutive identifier tokens from the i-th on
RECURSIVE IdentRun(_, _)
IdentRun(toks, i) ==
  IF TokOf(toks, i).tok = tok_identifier THEN 1 + IdentRun(toks, i + 1) ELSE 0

Reports == SelectSeq(out, LAMBDA m : m # "ready> ")

(***************************************************************************)
(* Claims on the parser and the driver                                     *)
(***************************************************************************)
Precedence(op) ==
  CASE op = "<" -> 10 [] op = "+" -> 20 [] op = "-" -> 20 [] op = "*" -> 40

OpTok(op) == Ord[op]

\* C1: a OP1 b OP2 c parses as (a OP1 b) OP2 c when precedence(OP1) >=
\* precedence(OP2) and as a OP1 (b OP2 c) when precedence(OP1) < precedence(OP2),
\* the operands in source order.
C1_Association ==
  (last.kind \in {"expr", "def"} /\ last.start = given.head.before + 1) =>
    /\ last.res # nullptr
    /\ last.res.Body =
         IF Precedence(given.op1) >= Precedence(given.op2)
           THEN BinaryExprAST(OpTok(given.op2),
                  BinaryExprAST(OpTok(given.op1), given.a.ast, given.b.ast),
                  given.c.ast)
           ELSE BinaryExprAST(OpTok(given.op1), given.a.ast,
                  BinaryExprAST(OpTok(given.op2), given.b.ast, given.c.ast))

\* a + b * c was parsed, with the product as the right operand of the sum
C1_Witness ==
  /\ last.kind = "def"
  /\ last.start = given.head.before + 1
  /\ given.op1 = "+" /\ given.op2 = "*"
  /\ last.res # nullptr
  /\ last.res.Body.Op = 43
  /\ last.res.Body.RHS.kind = "Binary"

OnlySemicolons == \A i \in DOMAIN input : input[i] = 59

\* C2: MainLoop reaches end-of-input and returns; every iteration that does
\* not return makes at least one getNextToken call; on an input of ';' alone
\* no top-level unit is reported.
C2_Terminates ==
  /\ <>(pc = "done")
  /\ [][(pc = "loop" /\ pc' = "loop") => ntok' > ntok]_vars
  /\ []((pc = "done" /\ OnlySemicolons) => Reports = <<>>)

\* the driver has returned from an input of three ';'
C2_Witness ==
  /\ pc = "done"
  /\ Len(input) = 3
  /\ OnlySemicolons
  /\ last.kind = "semi"

\* the prototype that starts at token s of toks, or nullptr
ExpectedPrototype(toks, s, k) ==
  IF TokOf(toks, s + 1).tok = 40 /\ TokOf(toks, s + 2 + k).tok = 41
    THEN PrototypeAST(TokOf(toks, s).id,
                      [i \in 1..k |-> TokOf(toks, s + 1 + i).id])
    ELSE nullptr

\* C3: ParsePrototype, started on an identifier, returns a prototype exactly
\* when the tokens are name ( identifiers ), with those identifiers in order as
\* its parameters, and a failure otherwise.
C3_Prototype ==
  (last.kind \in {"def", "extern"}
     /\ TokOf(Tokens, last.start + 1).tok = tok_identifier) =>
    last.proto = ExpectedPrototype(Tokens, last.start + 1,
                                   IdentRun(Tokens, last.start + 3))

\* ParsePrototype failed after reading a parameter: the list was not closed
C3_Witness ==
  /\ last.kind = "extern"
  /\ last.proto = nullptr
  /\ TokOf(Tokens, last.start + 1).tok = tok_identifier
  /\ TokOf(Tokens, last.start + 2).tok = 40
  /\ TokOf(Tokens, last.start + 3).tok = tok_identifier

\* C8: from the first getNextToken call on, the precedence table holds
\* exactly '<' = 10, '+' = 20, '-' = 20, '*' = 40.
C8_TableFixed ==
  pc # "start" =>
    BinopPrecedence = (60 :> 10) @@ (43 :> 20) @@ (45 :> 20) @@ (42 :> 40)

\* C9: once getchar has returned EOF the lexer returns tok_eof, and after
\* tok_eof every later call returns tok_eof.
C9_EofStable ==
  [][/\ LastChar = EOF => CurTok' = tok_eof
     /\ CurTok = tok_eof => CurTok' = tok_eof]_vars

\* tok_eof was returned a second time, after a comment that ran to end-of-input
C9_Witness ==
  /\ input = Str(<<"a", "#", "a">>)
  /\ CurTok = tok_eof
  /\ ntok = 3

(***************************************************************************)
(* Claims on the code generator                                            *)
(***************************************************************************)
\* what the latest e->codegen() started from, once e was entered
GenEntered ==
  [NamedValues |-> gen.NamedValues, code |-> gen.code, err |-> <<>>,
   visited |-> <<gen.node>>]

\* what the latest e->codegen() left
GenLeft ==
  [NamedValues |-> NamedValues, code |-> code, err |-> gen.err,
   visited |-> gen.visited]

\* the left operand of the latest node, generated from where the node started
LeftOperand == Codegen(gen.node.LHS, GenEntered)

LeftFailed ==
  /\ gen.kind = "Expr"
  /\ gen.node.kind = "Binary"
  /\ LeftOperand.v = nullptr

\* C4 as claimed: when the left operand of a BinaryOp fails, the right operand
\* is not generated and nothing of it is emitted, and the BinaryOp fails.
C4_ShortCircuit ==
  LeftFailed => (gen.v = nullptr /\ GenLeft = LeftOperand.st)

\* C4: when the left operand of a BinaryOp fails, the right operand is still
\* generated, after which the BinaryOp returns the failure and makes no
\* IRBuilder call and writes no diagnostic of its own.
C4_FailsAfterBothOperands ==
  LeftFailed =>
    (gen.v = nullptr /\ GenLeft = Codegen(gen.node.RHS, LeftOperand.st).st)

\* the left operand failed and the right operand made an IRBuilder call
C4_Witness ==
  /\ LeftFailed
  /\ Len(code) > Len(LeftOperand.st.code)

CallOf(e) ==
  /\ gen.kind = "Expr"
  /\ gen.node.kind = "Call"
  /\ e = gen.node

\* the latest codegen() returned nullptr with the one diagnostic msg, entered
\* no other node, made no IRBuilder call and left NamedValues alone
FailedAtOnce(msg) ==
  /\ gen.v = nullptr
  /\ gen.err = <<msg>>
  /\ gen.visited = <<gen.node>>
  /\ code = gen.code
  /\ NamedValues = gen.NamedValues

\* C5: a Call whose argument count differs from the callee's parameter count
\* fails before any argument is generated and nothing is emitted.
C5_ArityFirst ==
  \A e \in Exprs :
    (CallOf(e) /\ getFunction(e.Callee) # 0
       /\ TheModule[getFunction(e.Callee)].arg_size # Len(e.Args)) =>
      FailedAtOnce("Incorrect number of arguments passed.")

\* a call of a declared function with one argument too many or too few, the
\* first argument being a sum that would have been emitted
C5_Witness ==
  /\ gen.kind = "Expr"
  /\ gen.node.kind = "Call"
  /\ getFunction(gen.node.Callee) # 0
  /\ TheModule[getFunction(gen.node.Callee)].arg_size # Len(gen.node.Args)
  /\ gen.node.Args # <<>>
  /\ gen.node.Args[1].kind = "Binary"
  /\ gen.v = nullptr

\* C6: a Call of a name that is no function of the module fails with "unknown
\* function referenced", generates no argument and emits nothing.
C6_UnknownFunction ==
  \A e \in Exprs :
    (CallOf(e) /\ getFunction(e.Callee) = 0) =>
      FailedAtOnce("unknown function referenced.")

\* a call of an undeclared function, with arguments, into a module that holds
\* two functions
C6_Witness ==
  /\ gen.kind = "Expr"
  /\ gen.node.kind = "Call"
  /\ getFunction(gen.node.Callee) = 0
  /\ Len(gen.node.Args) = 2
  /\ Len(TheModule) = 2
  /\ gen.v = nullptr

\* C7: generating a prototype whose name and parameter count the module
\* already holds yields that function and adds none.
C7_Idempotent ==
  (gen.kind = "Prototype") =>
    \A i \in DOMAIN gen.module :
      (gen.module[i].Name = gen.node.Name
         /\ gen.module[i].arg_size = Len(gen.node.Args)) =>
        (TheModule = gen.module /\ gen.v = [kind |-> "Function", i |-> i])

\* C10: codegen of a Variable fails exactly when the name has no binding, and
\* leaves the table as it was.
C10_PureLookup ==
  (gen.kind = "Expr" /\ gen.node.kind = "Variable") =>
    /\ gen.v = nullptr <=> gen.node.Name \notin DOMAIN gen.NamedValues
    /\ NamedValues = gen.NamedValues

====
